---- MODULE Spec2Model ----
(***************************************************************************)
(* Model of nginx_deployment.py: one HTTP endpoint, POST /k8s/deploy, that *)
(* checks for and creates a namespace, an nginx deployment and an nginx    *)
(* service by writing a manifest to a fixed file and running               *)
(* `kubectl apply -f` on it under a retry policy.                          *)
(*                                                                         *)
(* The web server runs the handler on the threads of a pool; each thread   *)
(* serves one request after another, and pc[t] is the place of thread t in *)
(* the handler.  The cluster, the manifest file and the kubectl processes  *)
(* are the environment: what a cluster read answers and how a command ends *)
(* are chosen nondeterministically.                                        *)
(*                                                                         *)
(* Text is a sequence of one-character strings, so that the substring      *)
(* tests, lower() and strip() of the code are computed, not assumed.       *)
(***************************************************************************)
EXTENDS Integers, Sequences, FiniteSets, TLC

VARIABLES
    threads,    \* the threads of the pool that serve requests
    cluster,    \* the resources present in the cluster
    file,       \* content of temp_resource.yaml, or NoFile
    pc,         \* pc[t]: position of thread t in the request it serves
    req,        \* req[t]: the header and query parameter of that request
    step,       \* step[t]: index in Steps of the step the request is in
    results,    \* results[t]: the *_result statuses obtained so far
    log,        \* log[t]: the cluster reads and apply calls made, in order
    attempts,   \* attempts[t]: attempts of the run_command call in progress
    clock,      \* clock[t]: time elapsed in the run_command call in progress
    out,        \* out[t]: (output, error) returned by run_command in the call
    returned,   \* returned[t]: what the apply calls of the request returned
    response,   \* response[t]: the HTTP response of the request
    prev,       \* prev[t]: the request t answered with 200 just before, if any
    seen        \* history: the ways requests have met in the manifest file

vars == <<threads, cluster, file, pc, req, step, results, log, attempts, clock,
          out, returned, response, prev, seen>>

----------------------------------------------------------------------------
\* the threads a pool can have
Threads == {1, 2}

(* Program constants *)

API_KEY == "deploy-nginx"
TEMP_YAML_FILE == "temp_resource.yaml"
RETRY_ATTEMPTS == 3
RETRY_WAIT_SECONDS == 5
COMMAND_TIMEOUT_SECONDS == 15

----------------------------------------------------------------------------
(* Text *)

Whitespace == {" ", "\n"}

RECURSIVE LStrip(_)
LStrip(s) == IF s # <<>> /\ Head(s) \in Whitespace THEN LStrip(Tail(s)) ELSE s

RECURSIVE RStrip(_)
RStrip(s) ==
    IF s # <<>> /\ s[Len(s)] \in Whitespace
    THEN RStrip(SubSeq(s, 1, Len(s) - 1)) ELSE s

\* str.strip()
Strip(s) == RStrip(LStrip(s))

LowerChar(c) ==
    CASE c = "E" -> "e"
      [] c = "R" -> "r"
      [] c = "O" -> "o"
      [] OTHER -> c

\* str.lower()
Lower(s) == [i \in 1..Len(s) |-> LowerChar(s[i])]

\* sub in s
Contains(s, sub) ==
    \E i \in 0..(Len(s) - Len(sub)) : SubSeq(s, i + 1, i + Len(sub)) = sub

----------------------------------------------------------------------------
(* Requests *)

\* the x-api-key header was not sent
NoHeader == "<no header>"

\* values of the x-api-key header
Keys == {API_KEY, "wrong-key", NoHeader}

\* values of the namespace query parameter
NsNames == { <<"n", "s">>, <<"e", "r", "r", "o", "r", "-", "n", "s">> }

(* Resources and manifests *)

\* a handler that deploys before it creates the namespace
Steps_deployment_first == <<"Deployment", "Namespace", "Service">>

\* create_namespace, deploy_nginx, create_nginx_service, in the handler's order
Steps == <<"Namespace", "Deployment", "Service">>

Kinds == {Steps[i] : i \in 1..Len(Steps)}

\* metadata.name of the manifest each step builds
ResourceName(kind, namespace) ==
    CASE kind = "Namespace" -> namespace
      [] kind = "Deployment" -> <<"n", "g", "i", "n", "x", "-", "d">>
      [] kind = "Service" -> <<"n", "g", "i", "n", "x", "-", "s">>

\* the dict each step hands to apply_kubernetes_resource
Manifest(kind, namespace) ==
    [kind |-> kind, namespace |-> namespace, name |-> ResourceName(kind, namespace)]

Manifests == {Manifest(k, n) : k \in Kinds, n \in NsNames}

NoFile == [kind |-> "none"]

\* steps that all report "created"
AppliedStatus_created(kind) == "created"

\* the status a step reports after a successful apply
AppliedStatus(kind) ==
    CASE kind = "Namespace" -> "created"
      [] kind = "Deployment" -> "success"
      [] kind = "Service" -> "service-created"

----------------------------------------------------------------------------
(* The cluster API: read_namespace, read_namespaced_deployment,            *)
(* read_namespaced_service.  A status of 200 is a read that returns; any   *)
(* other status is an ApiException carrying it.                            *)

\* statuses of a failed read other than not found
OtherStatuses == {403, 500}

ReadStatuses(kind, namespace, cl) ==
    (IF Manifest(kind, namespace) \in cl THEN {200} ELSE {404}) \cup OtherStatuses

\* the cluster never holds a deployment or service of a namespace it lacks
Consistent(cl) ==
    \A m \in cl : m.kind # "Namespace" => Manifest("Namespace", m.namespace) \in cl

(* The existence checks: "True", "False", or "raise" when the exception    *)
(* leaves the function.                                                    *)

\* an existence check that takes every failed read for not found
namespace_exists_swallows(status) == IF status = 200 THEN "True" ELSE "False"

namespace_exists(status) ==
    IF status = 200 THEN "True"
    ELSE IF status = 404 THEN "False"
    ELSE "raise"

\* a check that answers the wrong way round
deployment_exists_inverted(status) ==
    IF status = 200 THEN "False" ELSE IF status = 404 THEN "True" ELSE "raise"

deployment_exists(status) ==
    IF status = 200 THEN "True"
    ELSE IF status = 404 THEN "False"
    ELSE "raise"

service_exists(status) ==
    IF status = 200 THEN "True"
    ELSE IF status = 404 THEN "False"
    ELSE "raise"

Exists(kind, status) ==
    CASE kind = "Namespace" -> namespace_exists(status)
      [] kind = "Deployment" -> deployment_exists(status)
      [] kind = "Service" -> service_exists(status)

----------------------------------------------------------------------------
(* kubectl apply -f temp_resource.yaml, as a process.  The process reads   *)
(* the manifest file when it starts.  A process that completes wrote       *)
(* stdout and stderr and did or did not change the cluster; the code sees  *)
(* only the two texts.                                                     *)

Endings == {"created", "server_error", "client_error"}

\* what the process wrote and did, by the way it ended
Text(ending, m) ==
    CASE ending = "created" ->
            [stdout |-> m.name \o <<" ", "c", "r", "e", "a", "t", "e", "d", "\n">>,
             stderr |-> <<>>, applied |-> TRUE]
      [] ending = "server_error" ->
            \* "Error from server (...): ..."
            [stdout |-> <<>>,
             stderr |-> <<"E", "r", "r", "o", "r", " ", "f", "r", "o", "m", "\n">>,
             applied |-> FALSE]
      [] ending = "client_error" ->
            \* "error: ...", kubectl's own failures, e.g. an unreadable file
            [stdout |-> <<>>,
             stderr |-> <<"e", "r", "r", "o", "r", ":", "\n">>,
             applied |-> FALSE]

\* how a process that read manifest m (or found no file) can end
CommandEnds(m, cl) ==
    IF m = NoFile
    THEN {"client_error"}
    ELSE {"server_error", "client_error"}
         \cup (IF Consistent(cl \cup {m}) THEN {"created"} ELSE {})

\* what run_command returns for a completed process
Decode(res) == [output |-> Strip(res.stdout), error |-> Strip(res.stderr)]

NoOutput == [output |-> <<>>, error |-> <<>>]

\* a test that looks for "error" in the output as it is written
IsApplyError_as_written(output, error) ==
    \/ Contains(error, <<"E", "r", "r", "o", "r">>)
    \/ Contains(output, <<"e", "r", "r", "o", "r">>)

\* apply_kubernetes_resource raises "kubectl apply failed"
IsApplyError(output, error) ==
    \/ Contains(error, <<"E", "r", "r", "o", "r">>)
    \/ Contains(Lower(output), <<"e", "r", "r", "o", "r">>)

\* a stop condition that allows one attempt more
stop_after_one_more(attempt_number) == attempt_number > RETRY_ATTEMPTS

\* tenacity: stop_after_attempt(RETRY_ATTEMPTS), asked after a failed attempt
stop_after_attempt(attempt_number) == attempt_number >= RETRY_ATTEMPTS

\* a wait twice as long
wait_fixed_doubled == RETRY_WAIT_SECONDS + RETRY_WAIT_SECONDS

\* tenacity: wait_fixed(RETRY_WAIT_SECONDS)
wait_fixed == RETRY_WAIT_SECONDS

\* how long a process that completes in time can take
Durations == {1, COMMAND_TIMEOUT_SECONDS - 1}

----------------------------------------------------------------------------
(* HTTP responses *)

NoResponse == [code |-> 0]

\* FastAPI's answer to a request that lacks a required header
Http422 == [code |-> 422, detail |-> "Field required"]

\* verify_api_key
Http401 == [code |-> 401, detail |-> "Invalid API key"]

\* an error response that carries a result as well
Http500_partial(cause) ==
    [code |-> 500, detail |-> cause, namespace_result |-> "created"]

\* the handler's except clause
Http500(cause) == [code |-> 500, detail |-> cause]

\* the handler's return value
Http200(res) ==
    [code |-> 200,
     namespace_result |-> res[1],
     deployment_result |-> res[2],
     service_result |-> res[3],
     message |-> "Namespace, NGINX Deployment, and Service executed successfully."]

\* a key check that lets every key pass
verify_api_key_accepts(api_key) == FALSE

\* verify_api_key: TRUE when it raises HTTPException(401)
verify_api_key(api_key) == api_key # API_KEY

NoRequest == [key |-> NoHeader, namespace |-> <<>>]

NoPrev == [code |-> 0, namespace |-> <<>>]

----------------------------------------------------------------------------
(* Initial states: no request has arrived, the manifest file does not      *)
(* exist, the cluster holds any consistent set of the resources.           *)

InitServer ==
    /\ cluster \in {cl \in SUBSET Manifests : Consistent(cl)}
    /\ file = NoFile
    /\ pc = [t \in Threads |-> "idle"]
    /\ req = [t \in Threads |-> NoRequest]
    /\ step = [t \in Threads |-> 1]
    /\ results = [t \in Threads |-> <<>>]
    /\ log = [t \in Threads |-> <<>>]
    /\ attempts = [t \in Threads |-> <<>>]
    /\ clock = [t \in Threads |-> 0]
    /\ out = [t \in Threads |-> NoOutput]
    /\ returned = [t \in Threads |-> <<>>]
    /\ response = [t \in Threads |-> NoResponse]
    /\ prev = [t \in Threads |-> NoPrev]
    /\ seen = {}

\* one thread: the requests are served one after another
Init == threads = {1} /\ InitServer

InFlight(t) == pc[t] \notin {"idle", "done"}

\* the step of the handler thread t is in
Kind(t) == Steps[step[t]]

(* How control moves on.  Each of these sets pc, step, results, response.  *)

\* the request is answered with resp
Respond(t, resp) ==
    /\ response' = [response EXCEPT ![t] = resp]
    /\ pc' = [pc EXCEPT ![t] = "done"]
    /\ UNCHANGED <<step, results>>

Goto(t, label) ==
    /\ pc' = [pc EXCEPT ![t] = label]
    /\ UNCHANGED <<step, results, response>>

\* the current step returns its result; the handler calls the next step, or
\* returns after the last one
StepReturns(t, status) ==
    /\ results' = [results EXCEPT ![t] = Append(@, status)]
    /\ IF step[t] = Len(Steps)
       THEN /\ response' = [response EXCEPT ![t] = Http200(results'[t])]
            /\ pc' = [pc EXCEPT ![t] = "done"]
            /\ step' = step
       ELSE /\ step' = [step EXCEPT ![t] = @ + 1]
            /\ pc' = [pc EXCEPT ![t] = "exists"]
            /\ response' = response

\* a step that reports its failure as a result, so that the handler goes on
Fail_continues(t, cause) == StepReturns(t, "failed")

\* a handler that passes over a step that failed and calls the next one
Fail_skips_step(t, cause) ==
    IF step[t] = Len(Steps)
    THEN Respond(t, Http500(cause))
    ELSE /\ step' = [step EXCEPT ![t] = @ + 1]
         /\ pc' = [pc EXCEPT ![t] = "exists"]
         /\ UNCHANGED <<results, response>>

\* an exception reaches the handler's except clause, whether the step wrapped
\* it in an HTTPException or not
Fail(t, cause) == Respond(t, Http500(cause))

----------------------------------------------------------------------------
(* The endpoint *)

\* A request arrives with header api_key and query parameter namespace and is
\* given to a free thread.  FastAPI rejects it before the handler runs when
\* the required header is missing.
Request(t, api_key, namespace) ==
    /\ t \in threads
    /\ ~InFlight(t)
    /\ req' = [req EXCEPT ![t] = [key |-> api_key, namespace |-> namespace]]
    /\ prev' = [prev EXCEPT ![t] =
                    IF response[t].code = 200
                    THEN [code |-> 200, namespace |-> req[t].namespace]
                    ELSE NoPrev]
    /\ step' = [step EXCEPT ![t] = 1]
    /\ results' = [results EXCEPT ![t] = <<>>]
    /\ log' = [log EXCEPT ![t] = <<>>]
    /\ out' = [out EXCEPT ![t] = NoOutput]
    /\ returned' = [returned EXCEPT ![t] = <<>>]
    /\ IF api_key = NoHeader
       THEN /\ response' = [response EXCEPT ![t] = Http422]
            /\ pc' = [pc EXCEPT ![t] = "done"]
       ELSE /\ response' = [response EXCEPT ![t] = NoResponse]
            /\ pc' = [pc EXCEPT ![t] = "verify"]
    /\ UNCHANGED <<threads, cluster, file, attempts, clock, seen>>

\* deploy_namespace_and_nginx, first statement
VerifyKey(t) ==
    /\ pc[t] = "verify"
    /\ IF verify_api_key(req[t].key)
       THEN Respond(t, Http401)
       ELSE Goto(t, "exists")
    /\ UNCHANGED <<threads, cluster, file, req, log, attempts, clock, out,
                   returned, prev, seen>>

\* create_namespace / deploy_nginx / create_nginx_service up to the test of
\* the existence check; the cluster answers the read with `status`
ExistenceCheck(t, status) ==
    /\ pc[t] = "exists"
    /\ status \in ReadStatuses(Kind(t), req[t].namespace, cluster)
    /\ LET ret == Exists(Kind(t), status) IN
        /\ log' = [log EXCEPT ![t] = Append(@,
                      [op |-> "read", kind |-> Kind(t), status |-> status, ret |-> ret])]
        /\ CASE ret = "True" -> StepReturns(t, "exists")
             [] ret = "False" -> Goto(t, "write")
             [] OTHER -> Fail(t, "ApiException")
    /\ UNCHANGED <<threads, cluster, file, req, attempts, clock, out, returned,
                   prev, seen>>

----------------------------------------------------------------------------
(* apply_kubernetes_resource and run_command *)

\* the attempt of run_command in progress, or the last one made
Current(t) == attempts[t][Len(attempts[t])]

\* the processes the call started that have not ended
Running(t) == {i \in 1..Len(attempts[t]) : attempts[t][i].running}

\* a step that looks again before it applies, and reports a resource that
\* has come into being since its check as existing
WriteManifest_rechecks(t) ==
    /\ pc[t] = "write"
    /\ IF Manifest(Kind(t), req[t].namespace) \in cluster
       THEN /\ StepReturns(t, "exists")
            /\ UNCHANGED <<file, log, out>>
       ELSE /\ file' = Manifest(Kind(t), req[t].namespace)
            /\ log' = [log EXCEPT ![t] = Append(@,
                          [op |-> "apply", kind |-> Kind(t), ret |-> "running"])]
            /\ out' = [out EXCEPT ![t] = NoOutput]
            /\ Goto(t, "spawn")
    /\ UNCHANGED <<threads, cluster, req, attempts, clock, returned, prev, seen>>

\* open(TEMP_YAML_FILE, "w") and yaml.safe_dump: the step calls
\* apply_kubernetes_resource, which writes the manifest and calls run_command
WriteManifest(t) ==
    /\ pc[t] = "write"
    /\ file' = Manifest(Kind(t), req[t].namespace)
    /\ log' = [log EXCEPT ![t] = Append(@,
                  [op |-> "apply", kind |-> Kind(t), ret |-> "running"])]
    /\ out' = [out EXCEPT ![t] = NoOutput]
    /\ Goto(t, "spawn")
    /\ UNCHANGED <<threads, cluster, req, attempts, clock, returned, prev, seen>>

\* a kubectl that is handed the manifest of its own request, whatever the
\* file holds
Popen_own_manifest(t) ==
    /\ pc[t] = "spawn"
    /\ attempts' = [attempts EXCEPT ![t] = Append(@,
            [start |-> clock[t], end |-> clock[t], result |-> "running",
             read |-> Manifest(Kind(t), req[t].namespace), running |-> TRUE])]
    /\ Goto(t, "communicate")
    /\ UNCHANGED <<threads, cluster, file, req, log, clock, out, returned, prev,
                   seen>>

\* subprocess.Popen starts kubectl, which reads the manifest file
Popen(t) ==
    /\ pc[t] = "spawn"
    /\ attempts' = [attempts EXCEPT ![t] = Append(@,
            [start |-> clock[t], end |-> clock[t], result |-> "running",
             read |-> file, running |-> TRUE])]
    /\ seen' = IF file \notin {NoFile, Manifest(Kind(t), req[t].namespace)}
               THEN seen \cup {"foreign manifest"} ELSE seen
    /\ Goto(t, "communicate")
    /\ UNCHANGED <<threads, cluster, file, req, log, clock, out, returned, prev>>

\* subprocess.Popen raises (the executable cannot be started)
PopenFails(t) ==
    /\ pc[t] = "spawn"
    /\ attempts' = [attempts EXCEPT ![t] = Append(@,
            [start |-> clock[t], end |-> clock[t], result |-> "oserror",
             read |-> NoFile, running |-> FALSE])]
    /\ Goto(t, "raised")
    /\ UNCHANGED <<threads, cluster, file, req, log, clock, out, returned, prev,
                   seen>>

\* process.communicate returns: the process ended within the timeout, after
\* d time units, in the way `ending`
Communicate(t, d, ending) ==
    /\ pc[t] = "communicate"
    /\ ending \in CommandEnds(Current(t).read, cluster)
    /\ LET res == Text(ending, Current(t).read) IN
        /\ cluster' = IF res.applied THEN cluster \cup {Current(t).read} ELSE cluster
        /\ out' = [out EXCEPT ![t] = Decode(res)]
    /\ clock' = [clock EXCEPT ![t] = @ + d]
    /\ attempts' = [attempts EXCEPT ![t][Len(attempts[t])] =
            [@ EXCEPT !.end = clock'[t], !.result = "completed", !.running = FALSE]]
    /\ Goto(t, "remove")
    /\ UNCHANGED <<threads, file, req, log, returned, prev, seen>>

\* process.communicate raises TimeoutExpired after COMMAND_TIMEOUT_SECONDS;
\* run_command raises in turn and leaves the process as it is
TimeoutExpired(t) ==
    /\ pc[t] = "communicate"
    /\ clock' = [clock EXCEPT ![t] = @ + COMMAND_TIMEOUT_SECONDS]
    /\ attempts' = [attempts EXCEPT ![t][Len(attempts[t])] =
            [@ EXCEPT !.end = clock'[t], !.result = "timeout"]]
    /\ Goto(t, "raised")
    /\ UNCHANGED <<threads, cluster, file, req, log, out, returned, prev, seen>>

\* a retry that starts over when the attempts are used up
Retry_starts_over(t) ==
    /\ pc[t] = "raised"
    /\ Goto(t, "spawn")
    /\ IF stop_after_attempt(Len(attempts[t]))
       THEN /\ attempts' = [attempts EXCEPT ![t] = <<>>]
            /\ clock' = [clock EXCEPT ![t] = 0]
       ELSE /\ clock' = [clock EXCEPT ![t] = @ + wait_fixed]
            /\ UNCHANGED attempts
    /\ UNCHANGED <<threads, cluster, file, req, log, out, returned, prev, seen>>

\* an apply that, having failed for good, deletes what the request created
Retry_rolls_back(t) ==
    /\ pc[t] = "raised"
    /\ IF stop_after_attempt(Len(attempts[t]))
       THEN /\ Fail(t, "RetryError")
            /\ log' = [log EXCEPT ![t][Len(log[t])].ret = "raise"]
            /\ attempts' = [attempts EXCEPT ![t] = <<>>]
            /\ clock' = [clock EXCEPT ![t] = 0]
            /\ cluster' = {m \in cluster : m.namespace # req[t].namespace}
       ELSE /\ Goto(t, "spawn")
            /\ clock' = [clock EXCEPT ![t] = @ + wait_fixed]
            /\ UNCHANGED <<log, attempts, cluster>>
    /\ UNCHANGED <<threads, file, req, out, returned, prev, seen>>

\* tenacity, after an attempt raised: it stops and run_command raises
\* RetryError, which apply_kubernetes_resource logs and re-raises; or it
\* sleeps and calls run_command's body again
Retry(t) ==
    /\ pc[t] = "raised"
    /\ IF stop_after_attempt(Len(attempts[t]))
       THEN /\ Fail(t, "RetryError")
            /\ log' = [log EXCEPT ![t][Len(log[t])].ret = "raise"]
            /\ attempts' = [attempts EXCEPT ![t] = <<>>]
            /\ clock' = [clock EXCEPT ![t] = 0]
       ELSE /\ Goto(t, "spawn")
            /\ clock' = [clock EXCEPT ![t] = @ + wait_fixed]
            /\ UNCHANGED <<log, attempts>>
    /\ UNCHANGED <<threads, cluster, file, req, out, returned, prev, seen>>

\* an apply call that has the command run again when its output is an error
RemoveAndClassify_retries(t) ==
    /\ pc[t] = "remove"
    /\ file # NoFile
    /\ file' = NoFile
    /\ IF IsApplyError(out[t].output, out[t].error)
       THEN /\ Goto(t, "raised")
            /\ UNCHANGED <<log, returned, attempts, clock>>
       ELSE /\ StepReturns(t, AppliedStatus(Kind(t)))
            /\ log' = [log EXCEPT ![t][Len(log[t])].ret = "return"]
            /\ returned' = [returned EXCEPT ![t] = Append(@, out[t].output)]
            /\ attempts' = [attempts EXCEPT ![t] = <<>>]
            /\ clock' = [clock EXCEPT ![t] = 0]
    /\ UNCHANGED <<threads, cluster, req, out, prev, seen>>

\* os.remove(TEMP_YAML_FILE), then the test of the output and the return of
\* the output to the step, which returns its result
RemoveAndClassify(t) ==
    /\ pc[t] = "remove"
    /\ IF file = NoFile
       THEN /\ Fail(t, "FileNotFoundError")
            /\ log' = [log EXCEPT ![t][Len(log[t])].ret = "raise"]
            /\ file' = file
            /\ seen' = seen \cup {"file gone"}
            /\ returned' = returned
       ELSE /\ file' = NoFile
            /\ seen' = seen
            /\ IF IsApplyError(out[t].output, out[t].error)
               THEN /\ Fail(t, "kubectl apply failed")
                    /\ log' = [log EXCEPT ![t][Len(log[t])].ret = "raise"]
                    /\ returned' = returned
               ELSE /\ StepReturns(t, AppliedStatus(Kind(t)))
                    /\ log' = [log EXCEPT ![t][Len(log[t])].ret = "return"]
                    /\ returned' = [returned EXCEPT ![t] = Append(@, out[t].output)]
    /\ attempts' = [attempts EXCEPT ![t] = <<>>]
    /\ clock' = [clock EXCEPT ![t] = 0]
    /\ UNCHANGED <<threads, cluster, req, out, prev>>

\* a process that run_command left behind on a timeout ends by itself,
\* having applied the manifest it read or not.  attempts[t] is the state of
\* one call: a process still running when the call ends is followed no
\* further.
ProcessExit(t, i, applied) ==
    /\ i \in Running(t)
    /\ attempts[t][i].result = "timeout"
    /\ applied =>
        /\ attempts[t][i].read # NoFile
        /\ Consistent(cluster \cup {attempts[t][i].read})
    /\ cluster' = IF applied THEN cluster \cup {attempts[t][i].read} ELSE cluster
    /\ attempts' = [attempts EXCEPT ![t][i].running = FALSE]
    /\ UNCHANGED <<threads, file, pc, req, step, results, log, clock, out,
                   returned, response, prev, seen>>

----------------------------------------------------------------------------

Next ==
    \/ \E t \in Threads, k \in Keys, n \in NsNames : Request(t, k, n)
    \/ \E t \in Threads : VerifyKey(t)
    \/ \E t \in Threads, s \in {200, 404} \cup OtherStatuses : ExistenceCheck(t, s)
    \/ \E t \in Threads : WriteManifest(t)
    \/ \E t \in Threads : Popen(t)
    \/ \E t \in Threads : PopenFails(t)
    \/ \E t \in Threads, d \in Durations, e \in Endings : Communicate(t, d, e)
    \/ \E t \in Threads : TimeoutExpired(t)
    \/ \E t \in Threads : Retry(t)
    \/ \E t \in Threads : RemoveAndClassify(t)
    \/ \E t \in Threads, i \in 1..RETRY_ATTEMPTS, applied \in BOOLEAN :
            ProcessExit(t, i, applied)

Spec == Init /\ [][Next]_vars

(* The handler runs to its end.  A thread that serves a request is not     *)
(* held up for ever: every read of the cluster returns or raises, every    *)
(* command completes or runs into its timeout, every sleep ends.           *)
HandlerStep(t) ==
    \/ VerifyKey(t)
    \/ \E s \in {200, 404} \cup OtherStatuses : ExistenceCheck(t, s)
    \/ WriteManifest(t)
    \/ Popen(t)
    \/ PopenFails(t)
    \/ \E d \in Durations, e \in Endings : Communicate(t, d, e)
    \/ TimeoutExpired(t)
    \/ Retry(t)
    \/ RemoveAndClassify(t)

SpecFair == Init /\ [][Next]_vars /\ \A t \in Threads : WF_vars(HandlerStep(t))

(* The test of the output on its own: an apply call has written the file   *)
(* and its command has completed, having written any of these texts to its *)
(* standard output and any to its standard error.                          *)
Texts ==
    { <<>>,
      <<"o", "k">>,
      <<"E", "r", "r", "o", "r">>,
      <<"e", "r", "r", "o", "r">>,
      <<"E", "R", "R", "O", "R">>,
      <<"E", "r", "r", "o">>,
      <<"x", "E", "r", "r", "o", "r", "x">>,
      <<"e", "R", "R", "o", "R", " ", "o", "k">>,
      <<"r", "o", "r", "r", "e">>,
      <<"e", "r", "r", "o", "r", "-", "n", "s", " ", "c", "r", "e", "a", "t", "e", "d">> }

InitClassify ==
    /\ threads = {1}
    /\ \E n \in NsNames, applied \in BOOLEAN, o \in Texts, e \in Texts :
        /\ cluster = IF applied THEN {Manifest("Namespace", n)} ELSE {}
        /\ file = Manifest("Namespace", n)
        /\ req = [t \in Threads |->
                    IF t = 1 THEN [key |-> API_KEY, namespace |-> n] ELSE NoRequest]
        /\ out = [t \in Threads |->
                    IF t = 1 THEN [output |-> o, error |-> e] ELSE NoOutput]
    /\ pc = [t \in Threads |-> IF t = 1 THEN "remove" ELSE "idle"]
    /\ step = [t \in Threads |-> 1]
    /\ results = [t \in Threads |-> <<>>]
    /\ log = [t \in Threads |->
                IF t = 1
                THEN << [op |-> "read", kind |-> "Namespace", status |-> 404, ret |-> "False"],
                        [op |-> "apply", kind |-> "Namespace", ret |-> "running"] >>
                ELSE <<>>]
    /\ attempts = [t \in Threads |->
                IF t = 1
                THEN << [start |-> 0, end |-> 1, result |-> "completed",
                         read |-> file, running |-> FALSE] >>
                ELSE <<>>]
    /\ clock = [t \in Threads |-> IF t = 1 THEN 1 ELSE 0]
    /\ returned = [t \in Threads |-> <<>>]
    /\ response = [t \in Threads |-> NoResponse]
    /\ prev = [t \in Threads |-> NoPrev]
    /\ seen = {}

SpecClassify == InitClassify /\ [][Next]_vars

(* Two requests served at the same time, each by its own thread, on a      *)
(* cluster that starts empty: both have the right key, the cluster answers *)
(* every read, and every command ends within the timeout.                  *)
InitConc == threads = Threads /\ InitServer /\ cluster = {}

NextConc ==
    \/ \E t \in Threads, n \in NsNames : pc[t] = "idle" /\ Request(t, API_KEY, n)
    \/ \E t \in Threads : VerifyKey(t)
    \/ \E t \in Threads, s \in {200, 404} : ExistenceCheck(t, s)
    \/ \E t \in Threads : WriteManifest(t)
    \/ \E t \in Threads : Popen(t)
    \/ \E t \in Threads, e \in Endings : Communicate(t, 1, e)
    \/ \E t \in Threads : RemoveAndClassify(t)

SpecConc == InitConc /\ [][NextConc]_vars

----------------------------------------------------------------------------
(* What the properties below speak of *)

Reads(t) == {i \in 1..Len(log[t]) : log[t][i].op = "read"}

Applies(t) == {i \in 1..Len(log[t]) : log[t][i].op = "apply"}

\* thread t is inside apply_kubernetes_resource
InApply(t) == pc[t] \in {"spawn", "communicate", "raised", "remove"}

Done(t) == pc[t] = "done"

Authenticated(t) == req[t].key = API_KEY

\* every cluster read of the request was answered with found or not found
ReadsAnswered(t) == \A i \in Reads(t) : log[t][i].status \in {200, 404}

----------------------------------------------------------------------------
(* C1.  Idempotence: when a request for namespace n was answered with 200  *)
(* and the next request, for the same n, follows with nothing in between   *)
(* and has its cluster reads answered, that request is answered with 200,  *)
(* reports "exists" for the namespace, the deployment and the service, and *)
(* makes no apply call.                                                    *)
C1_Idempotent ==
    \A t \in threads :
        ( /\ Done(t)
          /\ Authenticated(t)
          /\ prev[t].code = 200
          /\ prev[t].namespace = req[t].namespace
          /\ ReadsAnswered(t) )
        => /\ response[t] = Http200(<<"exists", "exists", "exists">>)
           /\ Applies(t) = {}

(* C2.  Cleanup: whenever no call of apply_kubernetes_resource is in       *)
(* progress, that is after every call has returned or raised, the manifest *)
(* file does not exist.                                                    *)
C2_Cleanup ==
    (\A t \in threads : ~InApply(t)) => file = NoFile

(* C3, as stated.  Auth gate: every request whose x-api-key header is      *)
(* missing or differs from the API key is answered with 401 and makes no   *)
(* cluster read and no apply call.                                         *)
C3_AuthGate401 ==
    \A t \in threads :
        (Done(t) /\ ~Authenticated(t))
        => response[t].code = 401 /\ log[t] = <<>>

(* C3, amended.  A request whose x-api-key header differs from the API key *)
(* is answered with 401 and one whose header is missing with 422; neither  *)
(* reaches a step of the handler: it makes no cluster read and no apply    *)
(* call.                                                                   *)
C3_AuthGate ==
    \A t \in threads :
        (pc[t] # "idle" /\ ~Authenticated(t))
        => /\ pc[t] \in {"verify", "done"}
           /\ log[t] = <<>>
           /\ results[t] = <<>>
           /\ Done(t) =>
                response[t] = IF req[t].key = NoHeader THEN Http422 ELSE Http401

\* a request with a wrong key has been answered
C3_Witness ==
    \E t \in threads :
        Done(t) /\ req[t].key \notin {API_KEY, NoHeader} /\ response[t].code = 401

----------------------------------------------------------------------------
\* the attempts of the call in progress that raised
Failed(t) == {i \in 1..Len(attempts[t]) : attempts[t][i].result \in {"timeout", "oserror"}}

AttemptsBounded(t) ==
    /\ Len(attempts[t]) <= 3
    /\ \A i \in 2..Len(attempts[t]) :
        /\ (i - 1) \in Failed(t)
        /\ attempts[t][i].start = attempts[t][i - 1].end + 5
    /\ \A i \in 1..Len(attempts[t]) :
        attempts[t][i].end - attempts[t][i].start <= 15

ExhaustedRaises(t) ==
    (pc[t] = "raised" /\ Cardinality(Failed(t)) = 3 /\ pc'[t] # pc[t])
    => /\ pc'[t] = "done"
       /\ response'[t] = Http500("RetryError")
       /\ log'[t][Len(log'[t])] = [op |-> "apply", kind |-> Kind(t), ret |-> "raise"]

(* C4.  Retry bound: one call of run_command starts the command at most 3  *)
(* times; an attempt after the first starts only after the one before it   *)
(* failed, and exactly 5 time units later; no attempt lasts more than 15   *)
(* time units; and when 3 attempts have failed run_command raises, the     *)
(* apply call raises and the request is answered with 500.                 *)
C4_RetryBound ==
    /\ [](\A t \in threads : AttemptsBounded(t))
    /\ [][\A t \in threads : ExhaustedRaises(t)]_vars

\* the third attempt of a call has failed, the second one by a timeout
C4_Witness ==
    \E t \in threads :
        /\ pc[t] = "raised"
        /\ Failed(t) = {1, 2, 3}
        /\ attempts[t][2].result = "timeout"

(* C5.  Existence checks: for the namespace, the deployment and the        *)
(* service alike, a read answered with 404 makes the check return False    *)
(* and raise nothing, and a read answered with another error status makes  *)
(* it raise: no result is recorded for the step and the request ends with  *)
(* 500.                                                                    *)
C5_ExistenceCheck ==
    \A t \in threads : \A i \in Reads(t) :
        /\ log[t][i].status = 404 =>
             /\ log[t][i].ret = "False"
             /\ (i < Len(log[t]) => log[t][i + 1] \in
                    {[op |-> "apply", kind |-> log[t][i].kind, ret |-> r] :
                        r \in {"running", "return", "raise"}})
        /\ log[t][i].status \notin {200, 404} =>
             /\ log[t][i].ret = "raise"
             /\ i = Len(log[t])
             /\ Len(results[t]) = step[t] - 1
             /\ Done(t)
             /\ response[t] = Http500("ApiException")

\* a request had its namespace and deployment reads answered with 404 and
\* its service read with 403
C5_Witness ==
    \E t \in threads :
        /\ Len(log[t]) = 5
        /\ log[t][1].kind = "Namespace" /\ log[t][1].status = 404
        /\ log[t][3].kind = "Deployment" /\ log[t][3].status = 404
        /\ log[t][5].kind = "Service" /\ log[t][5].status = 403

\* the place of a kind in the order namespace, deployment, service
Rank(kind) ==
    CASE kind = "Namespace" -> 1
      [] kind = "Deployment" -> 2
      [] kind = "Service" -> 3

(* C6.  Ordering: in every request the reads and apply calls come in the   *)
(* order namespace, deployment, service, and when the apply call of the    *)
(* deployment or of the service starts, every step before it has returned  *)
(* its result.                                                             *)
C6_Ordering ==
    \A t \in threads :
        /\ \A i, j \in 1..Len(log[t]) :
             i < j => Rank(log[t][i].kind) <= Rank(log[t][j].kind)
        /\ \A i \in Applies(t) :
             /\ Len(results[t]) >= Rank(log[t][i].kind) - 1
             /\ \A k \in Kinds : Rank(k) < Rank(log[t][i].kind) =>
                    \E j \in 1..(i - 1) :
                        /\ log[t][j].kind = k
                        /\ log[t][j].ret \in {"True", "return"}

\* a request has applied all three resources
C6_Witness ==
    \E t \in threads :
        {log[t][i].kind : i \in Applies(t)} = {"Namespace", "Deployment", "Service"}

(* C7.  All or nothing: an authenticated request is answered either with   *)
(* 200 and the three results, or with 500 and a detail string alone, also  *)
(* when the steps before the failing one had returned their results.       *)
C7_AllOrNothing ==
    \A t \in threads :
        (Done(t) /\ Authenticated(t)) =>
            \/ /\ response[t].code = 200
               /\ DOMAIN response[t] = {"code", "namespace_result",
                        "deployment_result", "service_result", "message"}
               /\ Len(results[t]) = 3
               /\ \A i \in Applies(t) : log[t][i].ret = "return"
               /\ \A i \in Reads(t) : log[t][i].ret # "raise"
            \/ /\ response[t].code = 500
               /\ DOMAIN response[t] = {"code", "detail"}
               /\ response[t].detail \in {"ApiException", "RetryError",
                        "kubectl apply failed", "FileNotFoundError"}
               /\ Len(results[t]) < 3
               /\ log[t][Len(log[t])].ret = "raise"

\* a request failed in its service step, after two steps that succeeded
C7_Witness ==
    \E t \in threads :
        /\ Done(t)
        /\ response[t].code = 500
        /\ results[t] = <<"created", "success">>

\* what the request has to report for step i, by the answer to its read
Expected(t, i) ==
    LET rd == CHOOSE j \in Reads(t) : log[t][j].kind = <<"Namespace", "Deployment", "Service">>[i]
    IN  IF log[t][rd].status = 200 THEN "exists"
        ELSE <<"created", "success", "service-created">>[i]

(* C8.  Success: a request answered with 200 read the namespace, the       *)
(* deployment and the service in this order, applied after each read that  *)
(* found nothing the resource just read, and reports for each "exists"     *)
(* when the read found it and otherwise "created", "success" and           *)
(* "service-created"; and a request with a valid key whose reads are       *)
(* answered and whose apply calls all return is answered with 200.         *)
C8_Success ==
    \A t \in threads :
        /\ (Done(t) /\ response[t].code = 200) =>
             /\ {log[t][j].kind : j \in Reads(t)} = {"Namespace", "Deployment", "Service"}
             /\ response[t].namespace_result = Expected(t, 1)
             /\ response[t].deployment_result = Expected(t, 2)
             /\ response[t].service_result = Expected(t, 3)
             /\ \A j \in Reads(t) :
                  /\ log[t][j].status = 404 =>
                        log[t][j + 1] = [op |-> "apply", kind |-> log[t][j].kind, ret |-> "return"]
                  /\ log[t][j].status = 200 =>
                        (j = Len(log[t]) \/ log[t][j + 1].op = "read")
        /\ ( /\ Done(t)
             /\ Authenticated(t)
             /\ ReadsAnswered(t)
             /\ \A j \in Applies(t) : log[t][j].ret = "return" )
           => response[t].code = 200

\* a request found nothing and created the namespace, the deployment and the
\* service, in this order
C8_Witness ==
    \E t \in threads :
        /\ response[t].code = 200
        /\ results[t] = <<"created", "success", "service-created">>
        /\ [i \in 1..Len(log[t]) |-> <<log[t][i].op, log[t][i].kind>>] =
             << <<"read", "Namespace">>, <<"apply", "Namespace">>,
                <<"read", "Deployment">>, <<"apply", "Deployment">>,
                <<"read", "Service">>, <<"apply", "Service">> >>

\* the apply call of the namespace step raised
NamespaceApplyFailed(t) ==
    \E i \in Applies(t) : log[t][i].kind = "Namespace" /\ log[t][i].ret = "raise"

(* C9, as stated.  The deployment step runs whatever the namespace step    *)
(* did: a request whose namespace apply failed still reads the deployment  *)
(* before it ends.                                                         *)
C9_DeploymentRunsRegardless ==
    \A t \in threads :
        (Done(t) /\ NamespaceApplyFailed(t))
        => \E i \in Reads(t) : log[t][i].kind = "Deployment"

(* C9, amended.  The deployment step runs only after the namespace step    *)
(* returned a result: a request whose namespace apply failed makes no      *)
(* deployment read, no deployment apply and no service step, and is        *)
(* answered with 500.                                                      *)
C9_NamespaceFailureEnds ==
    \A t \in threads :
        NamespaceApplyFailed(t)
        => /\ \A i \in 1..Len(log[t]) : log[t][i].kind = "Namespace"
           /\ results[t] = <<>>
           /\ Done(t)
           /\ response[t].code = 500

\* the namespace was absent and its apply failed
C9_Witness ==
    \E t \in threads :
        /\ Len(log[t]) = 2
        /\ log[t][1] = [op |-> "read", kind |-> "Namespace", status |-> 404, ret |-> "False"]
        /\ log[t][2] = [op |-> "apply", kind |-> "Namespace", ret |-> "raise"]

(* C10.  No process is left behind: a process whose attempt failed by a    *)
(* timeout is not running any more, so at no time during a call of         *)
(* run_command is more than one of its processes alive.                    *)
C10_NoProcessLeft ==
    \A t \in threads :
        /\ \A i \in 1..Len(attempts[t]) :
             attempts[t][i].result = "timeout" => ~attempts[t][i].running
        /\ Cardinality(Running(t)) <= 1

----------------------------------------------------------------------------
(* C11 *)

\* the request applied its namespace and its apply of the deployment failed
DeploymentApplyFailed(t) ==
    /\ Len(log[t]) = 4
    /\ log[t][1] = [op |-> "read", kind |-> "Namespace", status |-> 404, ret |-> "False"]
    /\ log[t][2] = [op |-> "apply", kind |-> "Namespace", ret |-> "return"]
    /\ log[t][3] = [op |-> "read", kind |-> "Deployment", status |-> 404, ret |-> "False"]
    /\ log[t][4] = [op |-> "apply", kind |-> "Deployment", ret |-> "raise"]

(* C11.  Nothing is rolled back.  No step takes a resource out of the      *)
(* cluster, so whatever a request created is still there afterwards; a     *)
(* request that applied its namespace and whose apply of the deployment    *)
(* then failed is answered with 500 and makes no further call.             *)
C11_NoRollback ==
    /\ [][cluster \subseteq cluster']_vars
    /\ [](\A t \in threads :
            DeploymentApplyFailed(t) => Done(t) /\ response[t].code = 500)

\* the namespace the request created is there after the request was answered
\* with 500 because every attempt to apply the deployment failed
C11_Witness ==
    \E t \in threads :
        /\ DeploymentApplyFailed(t)
        /\ response[t] = Http500("RetryError")
        /\ Manifest("Namespace", req[t].namespace) \in cluster

----------------------------------------------------------------------------
(* C12 *)

(* C12.  Check, then create, with nothing in between: a thread whose       *)
(* existence check returned absent goes on to apply that resource whatever *)
(* the other thread has done to the cluster since, and a request answered  *)
(* with 200 reports a resource as created or applied exactly when its own  *)
(* check found it absent.  So two requests for one namespace can both find *)
(* a resource absent and both apply it.                                    *)
C12_CheckThenCreate ==
    /\ [][\A t \in threads :
            pc[t] = "write" /\ pc'[t] # "write"
            => /\ pc'[t] = "spawn"
               /\ log'[t] = Append(log[t],
                      [op |-> "apply", kind |-> Kind(t), ret |-> "running"])]_vars
    /\ [](\A t \in threads :
            Done(t) /\ response[t].code = 200
            => \A i \in Reads(t) :
                 log[t][i].ret = "False" <=> results[t][Rank(log[t][i].kind)] # "exists")

\* both requests, for the same namespace, found the namespace absent, both
\* applied it, and both are answered that they created it
C12_Witness ==
    \E t, u \in threads :
        /\ t # u
        /\ req[t].namespace = req[u].namespace
        /\ \A w \in {t, u} :
             /\ Done(w)
             /\ log[w][1] = [op |-> "read", kind |-> "Namespace", status |-> 404, ret |-> "False"]
             /\ log[w][2] = [op |-> "apply", kind |-> "Namespace", ret |-> "return"]
             /\ response[w].code = 200
             /\ response[w].namespace_result = "created"

----------------------------------------------------------------------------
(* C13 *)

(* C13.  One manifest file for all requests.  The process an apply starts  *)
(* reads the file as it is at that moment, whoever wrote it last, and what *)
(* it creates is the resource it read; an apply that comes to remove the   *)
(* file and finds none fails its request with 500.  So a request can apply *)
(* the manifest of another and can fail because another removed the file.  *)
C13_SharedFile ==
    [][\A t \in threads :
        /\ pc[t] = "spawn" /\ pc'[t] = "communicate"
           => attempts'[t][Len(attempts'[t])].read = file
        /\ pc[t] = "communicate" /\ pc'[t] = "remove"
           => cluster' \in {cluster, cluster \cup {Current(t).read}}
        /\ pc[t] = "remove" /\ pc'[t] # "remove" /\ file = NoFile
           => /\ pc'[t] = "done"
              /\ response'[t] = Http500("FileNotFoundError")
              /\ log'[t][Len(log'[t])].ret = "raise"]_vars

\* a process has been started on a manifest that the other request wrote,
\* and a request has failed because the other had removed the file
C13_Witness ==
    /\ seen = {"foreign manifest", "file gone"}
    /\ \E t \in threads : response[t] = Http500("FileNotFoundError")

----------------------------------------------------------------------------
(* C14 *)

\* the word w stands in the text s, each letter of it in either case if
\* anycase, and as written if not
Mentions(s, w, anycase) ==
    \E i \in 1..Len(s) :
        /\ i + Len(w) - 1 <= Len(s)
        /\ \A j \in 1..Len(w) :
             \/ s[i + j - 1] = w[j]
             \/ anycase /\ <<s[i + j - 1], w[j]>> \in
                    {<<"E", "e">>, <<"R", "r">>, <<"O", "o">>}

(* C14.  The test of the output.  When the command of an apply call has    *)
(* completed and its file was removed, the call fails with "kubectl apply  *)
(* failed" exactly when the standard error holds "Error" or the standard   *)
(* output holds "error" in any mix of cases; otherwise it returns the      *)
(* output as run_command gave it.  An output that names a resource called  *)
(* "error-ns" therefore fails the call.                                    *)
C14_Classification ==
    [][\A t \in threads :
        pc[t] = "remove" /\ pc'[t] # "remove" /\ file # NoFile
        => IF \/ Mentions(out[t].error, <<"E", "r", "r", "o", "r">>, FALSE)
              \/ Mentions(out[t].output, <<"e", "r", "r", "o", "r">>, TRUE)
           THEN /\ response'[t] = Http500("kubectl apply failed")
                /\ log'[t][Len(log'[t])].ret = "raise"
                /\ returned'[t] = returned[t]
                /\ results'[t] = results[t]
           ELSE /\ returned'[t] = Append(returned[t], out[t].output)
                /\ log'[t][Len(log'[t])].ret = "return"
                /\ results'[t] = Append(results[t], AppliedStatus(Kind(t)))
                /\ response'[t].code \in {0, 200}]_vars

\* the command created the namespace, wrote "error-ns created" and nothing to
\* its standard error, and the request is answered with 500
C14_Witness ==
    \E t \in threads :
        /\ out[t] = [output |-> <<"e", "r", "r", "o", "r", "-", "n", "s", " ", "c", "r", "e", "a", "t", "e", "d">>,
                     error |-> <<>>]
        /\ Manifest("Namespace", req[t].namespace) \in cluster
        /\ log[t][Len(log[t])] = [op |-> "apply", kind |-> "Namespace", ret |-> "raise"]
        /\ response[t] = Http500("kubectl apply failed")

----------------------------------------------------------------------------
(* C15 *)

\* the third attempt of the apply call of t has failed: the call is about
\* to return its failure
LastAttemptFailed(t) == pc[t] = "raised" /\ Len(attempts[t]) = 3

(* C15, as stated.  An apply call that fails returns its failure at most   *)
(* 15 * 3 = 45 time units after it called run_command.                     *)
C15_Within45 ==
    \A t \in threads : LastAttemptFailed(t) => clock[t] <= 45

(* C15, amended.  An apply call whose attempts all fail returns its        *)
(* failure at most 3 * 15 + 2 * 5 = 55 time units after it called          *)
(* run_command: three attempts of at most 15 each and a wait of 5 after    *)
(* the first and after the second, none after the third.  No call of       *)
(* run_command lasts longer.                                               *)
C15_Within55 ==
    \A t \in threads :
        /\ clock[t] <= 55
        /\ LastAttemptFailed(t) =>
             clock[t] = 5 + 5 + (attempts[t][1].end - attempts[t][1].start)
                              + (attempts[t][2].end - attempts[t][2].start)
                              + (attempts[t][3].end - attempts[t][3].start)

\* three attempts timed out, and the call has lasted 55 time units
C15_Witness ==
    \E t \in threads :
        /\ LastAttemptFailed(t)
        /\ \A i \in 1..3 : attempts[t][i].result = "timeout"
        /\ clock[t] = 55

----------------------------------------------------------------------------
(* C16 *)

(* C16.  Termination.  Every request the handler has started on ends, and  *)
(* with one response: none is given while the handler runs, and the        *)
(* handler's response is 200, 401 or 500.                                  *)
C16_Termination ==
    /\ \A t \in Threads : InFlight(t) ~> Done(t)
    /\ [](\A t \in Threads :
            /\ InFlight(t) => response[t] = NoResponse
            /\ Done(t) /\ req[t].key # NoHeader => response[t].code \in {200, 401, 500})
    /\ [][\A t \in Threads :
            Done(t) /\ response'[t] # response[t] => log'[t] = <<>>]_vars

\* a request has ended whose apply of the service failed at the third attempt
C16_Witness ==
    \E t \in threads :
        /\ Done(t)
        /\ Len(results[t]) = 2
        /\ log[t][Len(log[t])] = [op |-> "apply", kind |-> "Service", ret |-> "raise"]
        /\ response[t] = Http500("RetryError")

----------------------------------------------------------------------------
(* C17 *)

(* C17.  What is retried.  Every attempt of a call before the last one     *)
(* raised, by a timeout or because the process could not be started; an    *)
(* attempt whose process completed is the last of its call, whatever the   *)
(* process wrote: the call goes on to remove the file and then returns or  *)
(* fails, and starts no further process.                                   *)
C17_RetryOnlyOnRaise ==
    /\ [](\A t \in threads : \A i \in 1..Len(attempts[t]) :
            /\ i < Len(attempts[t]) => attempts[t][i].result \in {"timeout", "oserror"}
            /\ attempts[t][i].result = "completed" => pc[t] = "remove"
            /\ pc[t] = "remove" /\ i = Len(attempts[t]) => attempts[t][i].result = "completed")
    /\ [][\A t \in threads :
            pc[t] = "remove" /\ pc'[t] # "remove"
            => /\ pc'[t] \in {"exists", "done"}
               /\ attempts'[t] = <<>>
               /\ log'[t][Len(log[t])].ret \in {"return", "raise"}]_vars

\* the first attempt of an apply call completed with "Error from" on its
\* standard error, and the request is about to fail
C17_Witness ==
    \E t \in threads :
        /\ pc[t] = "remove"
        /\ Len(attempts[t]) = 1
        /\ attempts[t][1].result = "completed"
        /\ out[t].error = <<"E", "r", "r", "o", "r", " ", "f", "r", "o", "m">>

----------------------------------------------------------------------------
(* C18 *)

\* the request of t has read the resource of this kind and found it absent
FoundAbsent(t, kind) ==
    \E i \in Reads(t) : log[t][i].kind = kind /\ log[t][i].status = 404

(* C18.  Apply only what was found absent.  Within a request every apply   *)
(* call comes right after the read of the same kind, which was answered    *)
(* with 404; no kind is applied twice; a kind whose read found the         *)
(* resource is not applied; every process the request starts reads the     *)
(* manifest of a resource the request found absent, and whatever comes     *)
(* into the cluster is such a resource.                                    *)
C18_ApplyOnlyAbsent ==
    /\ [](\A t \in threads :
            /\ \A i \in Applies(t) :
                 /\ i > 1
                 /\ log[t][i - 1] = [op |-> "read", kind |-> log[t][i].kind,
                                     status |-> 404, ret |-> "False"]
                 /\ \A j \in Applies(t) : log[t][j].kind = log[t][i].kind => j = i
            /\ \A i \in Reads(t) :
                 log[t][i].status = 200
                 => \A j \in Applies(t) : log[t][j].kind # log[t][i].kind
            /\ \A i \in 1..Len(attempts[t]) :
                 attempts[t][i].read # NoFile
                 => /\ attempts[t][i].read.namespace = req[t].namespace
                    /\ FoundAbsent(t, attempts[t][i].read.kind))
    /\ [][\A m \in cluster' \ cluster :
            \E t \in threads : m.namespace = req[t].namespace /\ FoundAbsent(t, m.kind)]_vars

\* a request found the namespace and the service and not the deployment, and
\* applied the deployment alone
C18_Witness ==
    \E t \in threads :
        /\ Done(t)
        /\ results[t] = <<"exists", "success", "exists">>
        /\ Applies(t) = {3}
        /\ log[t][3].kind = "Deployment"
        /\ Manifest("Deployment", req[t].namespace) \in cluster

----------------------------------------------------------------------------
(* C19 *)

(* C19.  The first failure ends the request.  A call that raised, be it an *)
(* existence check at any of the three steps or an apply call, is the last *)
(* call the request makes: the request is answered with 500 at once, and   *)
(* from then on it makes no read and no apply.                             *)
C19_FirstFailureAborts ==
    /\ [](\A t \in threads : \A i \in 1..Len(log[t]) :
            log[t][i].ret = "raise"
            => /\ i = Len(log[t])
               /\ Done(t)
               /\ response[t].code = 500
               /\ Len(results[t]) = Rank(log[t][i].kind) - 1)
    /\ [][\A t \in threads :
            Len(log[t]) > 0 /\ log[t][Len(log[t])].ret = "raise"
            => log'[t] \in {log[t], <<>>}]_vars

\* a request found the namespace, found no deployment, and failed to apply
\* the deployment: it never read the service
C19_Witness ==
    \E t \in threads :
        /\ Len(log[t]) = 3
        /\ log[t][1] = [op |-> "read", kind |-> "Namespace", status |-> 200, ret |-> "True"]
        /\ log[t][2] = [op |-> "read", kind |-> "Deployment", status |-> 404, ret |-> "False"]
        /\ log[t][3] = [op |-> "apply", kind |-> "Deployment", ret |-> "raise"]
        /\ response[t].code = 500
        /\ results[t] = <<"exists">>

====
